---- MODULE Spec2Model ----
(***************************************************************************)
(* Runtime dispatch of SimSIMD (include/simsimd/simsimd.h):                *)
(*   simsimd_capabilities        probes the CPU and returns a tier mask,   *)
(*   simsimd_find_metric_punned  selects a kernel for (kind, datatype)     *)
(*                               under supported & allowed.                *)
(* Capability masks, metric kinds and datatypes keep the integer values of *)
(* the C enums; `&` and `|` are computed bit by bit.  An entry point is     *)
(* the identity <metric>_<datatype>_<isa> spelled in the name of the       *)
(* function whose address the code takes (simsimd_cos_i8_neon, ...).       *)
(***************************************************************************)
EXTENDS Integers, Sequences, FiniteSets

VARIABLES
    defined,            \* the macros that are 1 in this build (preprocessor state)
    pc,                 \* "idle" before the call, then "find" or "probe": which call returned
    kind, datatype,     \* arguments of simsimd_find_metric_punned
    supported, allowed,
    metric_output,      \* *metric_output
    capability_output,  \* *capability_output
    examined,           \* positions of the tier `if`s the call evaluated, in order
    info1_ecx, info7_ebx, info7_edx,   \* cpuid leaf 1 / leaf 7 registers read by the probe
    hwcap, hwcap2,      \* getauxval(AT_HWCAP), getauxval(AT_HWCAP2)
    caps,               \* value returned by simsimd_capabilities
    threads,            \* concurrent calls: per thread its arguments, locals and position
    memory              \* concurrent calls: the locations the calls load and store

vars == <<defined, pc, kind, datatype, supported, allowed, metric_output,
          capability_output, examined, info1_ecx, info7_ebx, info7_edx,
          hwcap, hwcap2, caps, threads, memory>>

-----------------------------------------------------------------------------
(* Bounds of the model *)

\* A supported / allowed mask drawn for a call has at most this many tier
\* bits set (simsimd_cap_any_k, with all 31 bits, is always drawn as well).
MaxCapBits == 2

\* The number of calls that run concurrently.
NumThreads == 2

-----------------------------------------------------------------------------
(* Bitwise operators of C on non-negative int values *)

\* a & b.  Ten low bits that are all zero in one operand are zero in the
\* result and are shifted out in one step; otherwise one bit per step.
RECURSIVE BitAnd(_, _)
BitAnd(a, b) ==
    IF a = 0 \/ b = 0 THEN 0
    ELSE IF a % 1024 = 0 \/ b % 1024 = 0
         THEN 1024 * BitAnd(a \div 1024, b \div 1024)
         ELSE (a % 2) * (b % 2) + 2 * BitAnd(a \div 2, b \div 2)

RECURSIVE BitOr(_, _)
BitOr(a, b) ==
    IF a = 0 THEN b
    ELSE IF b = 0 THEN a
    ELSE (IF a % 2 = 1 \/ b % 2 = 1 THEN 1 ELSE 0) + 2 * BitOr(a \div 2, b \div 2)

-----------------------------------------------------------------------------
(* simsimd_metric_kind_t *)

simsimd_metric_unknown_k == 0
simsimd_metric_dot_k == 105       \* 'i'
simsimd_metric_vdot_k == 118      \* 'v'
simsimd_metric_cos_k == 99        \* 'c'
simsimd_metric_l2sq_k == 101      \* 'e'
simsimd_metric_hamming_k == 104   \* 'h'
simsimd_metric_jaccard_k == 106   \* 'j'
simsimd_metric_kl_k == 107        \* 'k'
simsimd_metric_js_k == 115        \* 's'

\* The alias enumerators, with the character each is given.
simsimd_metric_inner_k == 105             \* 'i'
simsimd_metric_cosine_k == 99             \* 'c'
simsimd_metric_angular_k == 99            \* 'c'
simsimd_metric_sqeuclidean_k == 101       \* 'e'
\* Mutant: the Manhattan alias is given the character after 'h'.
simsimd_metric_manhattan_next_k == simsimd_metric_hamming_k + 1
simsimd_metric_manhattan_k == 104         \* 'h'
simsimd_metric_tanimoto_k == 106          \* 'j'
simsimd_metric_kullback_leibler_k == 107  \* 'k'
simsimd_metric_jensen_shannon_k == 115    \* 's'

\* Each alias enumerator with the enumerator its comment names as canonical.
AliasOf ==
    { <<simsimd_metric_inner_k, simsimd_metric_dot_k>>,
      <<simsimd_metric_cosine_k, simsimd_metric_cos_k>>,
      <<simsimd_metric_angular_k, simsimd_metric_cos_k>>,
      <<simsimd_metric_sqeuclidean_k, simsimd_metric_l2sq_k>>,
      <<simsimd_metric_manhattan_k, simsimd_metric_hamming_k>>,
      <<simsimd_metric_tanimoto_k, simsimd_metric_jaccard_k>>,
      <<simsimd_metric_kullback_leibler_k, simsimd_metric_kl_k>>,
      <<simsimd_metric_jensen_shannon_k, simsimd_metric_js_k>> }

\* The canonical enumerators by name.
CanonicalKinds ==
    [ name \in { "unknown", "dot", "vdot", "cos", "l2sq", "hamming", "jaccard",
                 "kl", "js" } |->
        CASE name = "unknown" -> simsimd_metric_unknown_k
          [] name = "dot" -> simsimd_metric_dot_k
          [] name = "vdot" -> simsimd_metric_vdot_k
          [] name = "cos" -> simsimd_metric_cos_k
          [] name = "l2sq" -> simsimd_metric_l2sq_k
          [] name = "hamming" -> simsimd_metric_hamming_k
          [] name = "jaccard" -> simsimd_metric_jaccard_k
          [] name = "kl" -> simsimd_metric_kl_k
          [] name = "js" -> simsimd_metric_js_k ]

MetricKinds ==
    { simsimd_metric_unknown_k, simsimd_metric_dot_k, simsimd_metric_vdot_k,
      simsimd_metric_cos_k, simsimd_metric_l2sq_k, simsimd_metric_hamming_k,
      simsimd_metric_jaccard_k, simsimd_metric_kl_k, simsimd_metric_js_k }

(* simsimd_capability_t *)

simsimd_cap_serial_k == 1
simsimd_cap_any_k == 2147483647   \* 0x7FFFFFFF
simsimd_cap_neon_k == 1024        \* 1 << 10
simsimd_cap_sve_k == 2048         \* 1 << 11
simsimd_cap_sve2_k == 4096        \* 1 << 12
simsimd_cap_haswell_k == 1048576  \* 1 << 20
simsimd_cap_skylake_k == 2097152  \* 1 << 21
simsimd_cap_ice_k == 4194304      \* 1 << 22
simsimd_cap_sapphire_k == 8388608 \* 1 << 23

TierCaps ==
    { simsimd_cap_serial_k, simsimd_cap_neon_k, simsimd_cap_sve_k, simsimd_cap_sve2_k,
      simsimd_cap_haswell_k, simsimd_cap_skylake_k, simsimd_cap_ice_k,
      simsimd_cap_sapphire_k }

(* simsimd_datatype_t *)

simsimd_datatype_unknown_k == 0
simsimd_datatype_f64_k == 1
simsimd_datatype_f32_k == 2
simsimd_datatype_f16_k == 3
simsimd_datatype_i8_k == 4
simsimd_datatype_b8_k == 5
simsimd_datatype_f64c_k == 6
simsimd_datatype_f32c_k == 7
simsimd_datatype_f16c_k == 8
simsimd_datatype_i8c_k == 9

Datatypes == simsimd_datatype_unknown_k .. simsimd_datatype_i8c_k

-----------------------------------------------------------------------------
(* Entry points *)

\* (simsimd_metric_punned_t)0
NULL == [metric |-> "0", datatype |-> "0", isa |-> "0"]

\* (simsimd_metric_punned_t)&simsimd_<metric>_<datatype>_<isa>
Fn(metric, dt, isa) == [metric |-> metric, datatype |-> dt, isa |-> isa]

-----------------------------------------------------------------------------
(* The body of `switch (datatype)` as the sequence of its statements.      *)
(* A statement is a case label, a break, or a tier block                   *)
(*    #if macro / if (viable & cap) switch (kind) { case k: ... return; }  *)
(* whose `fns` holds one <<k, entry point>> per inner case.                *)

Case(d) == [op |-> "case", datatype |-> d, macro |-> "", cap |-> 0, fns |-> {}]

Break == [op |-> "break", datatype |-> 0, macro |-> "", cap |-> 0, fns |-> {}]

Tier(macro, cap, dt, isa, cases) ==
    [op |-> "if", datatype |-> 0, macro |-> macro, cap |-> cap,
     fns |-> { <<kc[1], Fn(kc[2], dt, isa)>> : kc \in cases }]

\* The serial blocks stand outside any #if.
Always == ""

\* Inner cases of the real floating-point blocks that have no divergences.
DotCosL2sq ==
    { <<simsimd_metric_dot_k, "dot">>, <<simsimd_metric_cos_k, "cos">>,
      <<simsimd_metric_l2sq_k, "l2sq">> }

\* Inner cases of the real floating-point blocks with the divergences.
DotCosL2sqJsKl ==
    DotCosL2sq \cup { <<simsimd_metric_js_k, "js">>, <<simsimd_metric_kl_k, "kl">> }

\* Inner cases of every i8 block: `case simsimd_metric_dot_k` takes &simsimd_cos_i8_*.
I8Cases ==
    { <<simsimd_metric_dot_k, "cos">>, <<simsimd_metric_cos_k, "cos">>,
      <<simsimd_metric_l2sq_k, "l2sq">> }

\* Inner cases of every b8 block.
HammingJaccard ==
    { <<simsimd_metric_hamming_k, "hamming">>, <<simsimd_metric_jaccard_k, "jaccard">> }

\* Inner cases of every complex block.
DotVdot ==
    { <<simsimd_metric_dot_k, "dot">>, <<simsimd_metric_vdot_k, "vdot">> }

CaseUnknown ==
    << Case(simsimd_datatype_unknown_k), Break >>

CaseF64 ==
    << Case(simsimd_datatype_f64_k),
       Tier("SIMSIMD_TARGET_SKYLAKE", simsimd_cap_skylake_k, "f64", "skylake", DotCosL2sq),
       Tier(Always, simsimd_cap_serial_k, "f64", "serial", DotCosL2sqJsKl),
       Break >>

CaseF32 ==
    << Case(simsimd_datatype_f32_k),
       Tier("SIMSIMD_TARGET_NEON", simsimd_cap_neon_k, "f32", "neon", DotCosL2sqJsKl),
       Tier("SIMSIMD_TARGET_SKYLAKE", simsimd_cap_skylake_k, "f32", "skylake", DotCosL2sqJsKl),
       Tier(Always, simsimd_cap_serial_k, "f32", "serial", DotCosL2sqJsKl),
       Break >>

CaseF16 ==
    << Case(simsimd_datatype_f16_k),
       Tier("SIMSIMD_TARGET_SVE", simsimd_cap_sve_k, "f16", "sve", DotCosL2sq),
       Tier("SIMSIMD_TARGET_NEON", simsimd_cap_neon_k, "f16", "neon", DotCosL2sqJsKl),
       Tier("SIMSIMD_TARGET_SAPPHIRE", simsimd_cap_sapphire_k, "f16", "sapphire", DotCosL2sqJsKl),
       Tier("SIMSIMD_TARGET_HASWELL", simsimd_cap_haswell_k, "f16", "haswell", DotCosL2sqJsKl),
       Tier(Always, simsimd_cap_serial_k, "f16", "serial", DotCosL2sqJsKl),
       Break >>

CaseI8 ==
    << Case(simsimd_datatype_i8_k),
       Tier("SIMSIMD_TARGET_NEON", simsimd_cap_neon_k, "i8", "neon", I8Cases),
       Tier("SIMSIMD_TARGET_ICE", simsimd_cap_ice_k, "i8", "ice", I8Cases),
       Tier("SIMSIMD_TARGET_HASWELL", simsimd_cap_haswell_k, "i8", "haswell", I8Cases),
       Tier(Always, simsimd_cap_serial_k, "i8", "serial", I8Cases),
       Break >>

\* Mutant: the serial block of b8 registers the Hamming distance alone.
CaseB8SerialHammingOnly ==
    << Case(simsimd_datatype_b8_k),
       Tier("SIMSIMD_TARGET_SVE", simsimd_cap_sve_k, "b8", "sve", HammingJaccard),
       Tier("SIMSIMD_TARGET_NEON", simsimd_cap_neon_k, "b8", "neon", HammingJaccard),
       Tier("SIMSIMD_TARGET_ICE", simsimd_cap_ice_k, "b8", "ice", HammingJaccard),
       Tier("SIMSIMD_TARGET_HASWELL", simsimd_cap_haswell_k, "b8", "haswell", HammingJaccard),
       Tier(Always, simsimd_cap_serial_k, "b8", "serial",
            { <<simsimd_metric_hamming_k, "hamming">> }),
       Break >>

CaseB8 ==
    << Case(simsimd_datatype_b8_k),
       Tier("SIMSIMD_TARGET_SVE", simsimd_cap_sve_k, "b8", "sve", HammingJaccard),
       Tier("SIMSIMD_TARGET_NEON", simsimd_cap_neon_k, "b8", "neon", HammingJaccard),
       Tier("SIMSIMD_TARGET_ICE", simsimd_cap_ice_k, "b8", "ice", HammingJaccard),
       Tier("SIMSIMD_TARGET_HASWELL", simsimd_cap_haswell_k, "b8", "haswell", HammingJaccard),
       Tier(Always, simsimd_cap_serial_k, "b8", "serial", HammingJaccard),
       Break >>

\* Mutant: the serial block of f32c registers the dot product alone.
CaseF32cSerialDotOnly ==
    << Case(simsimd_datatype_f32c_k),
       Tier("SIMSIMD_TARGET_SVE", simsimd_cap_sve_k, "f32c", "sve", DotVdot),
       Tier("SIMSIMD_TARGET_NEON", simsimd_cap_neon_k, "f32c", "neon", DotVdot),
       Tier("SIMSIMD_TARGET_HASWELL", simsimd_cap_haswell_k, "f32c", "haswell", DotVdot),
       Tier("SIMSIMD_TARGET_SKYLAKE", simsimd_cap_skylake_k, "f32c", "skylake", DotVdot),
       Tier(Always, simsimd_cap_serial_k, "f32c", "serial",
            { <<simsimd_metric_dot_k, "dot">> }) >>

\* No break closes this case: control runs on into the statements of f64c.
CaseF32c ==
    << Case(simsimd_datatype_f32c_k),
       Tier("SIMSIMD_TARGET_SVE", simsimd_cap_sve_k, "f32c", "sve", DotVdot),
       Tier("SIMSIMD_TARGET_NEON", simsimd_cap_neon_k, "f32c", "neon", DotVdot),
       Tier("SIMSIMD_TARGET_HASWELL", simsimd_cap_haswell_k, "f32c", "haswell", DotVdot),
       Tier("SIMSIMD_TARGET_SKYLAKE", simsimd_cap_skylake_k, "f32c", "skylake", DotVdot),
       Tier(Always, simsimd_cap_serial_k, "f32c", "serial", DotVdot) >>

CaseF64c ==
    << Case(simsimd_datatype_f64c_k),
       Tier("SIMSIMD_TARGET_SVE", simsimd_cap_sve_k, "f64c", "sve", DotVdot),
       Tier("SIMSIMD_TARGET_SKYLAKE", simsimd_cap_skylake_k, "f64c", "skylake", DotVdot),
       Tier(Always, simsimd_cap_serial_k, "f64c", "serial", DotVdot),
       Break >>

CaseF16c ==
    << Case(simsimd_datatype_f16c_k),
       Tier("SIMSIMD_TARGET_SVE", simsimd_cap_sve_k, "f16c", "sve", DotVdot),
       Tier("SIMSIMD_TARGET_NEON", simsimd_cap_neon_k, "f16c", "neon", DotVdot),
       Tier("SIMSIMD_TARGET_HASWELL", simsimd_cap_haswell_k, "f16c", "haswell", DotVdot),
       Tier("SIMSIMD_TARGET_SAPPHIRE", simsimd_cap_sapphire_k, "f16c", "sapphire", DotVdot),
       Tier(Always, simsimd_cap_serial_k, "f16c", "serial", DotVdot),
       Break >>

SwitchBody ==
    CaseUnknown \o CaseF64 \o CaseF32 \o CaseF16 \o CaseI8 \o CaseB8 \o
    CaseF32c \o CaseF64c \o CaseF16c

-----------------------------------------------------------------------------
(* simsimd_find_metric_punned *)

\* Mutant: the allowed mask is dropped.
ViableIgnoresAllowed(sup, alw) == sup

\* Mutant: a tier is viable when either mask has its bit.
ViableUnion(sup, alw) == BitOr(sup, alw)

\* Mutant: the supported mask is dropped.
ViableAllowedOnly(sup, alw) == alw

\* viable = supported & allowed
Viable(sup, alw) == BitAnd(sup, alw)

\* Mutant: the serial blocks are guarded by a macro no build defines.
CompiledGuardsSerial(macro, build) == macro \in build

\* Whether the preprocessor keeps a block guarded by `#if macro`.
Compiled(macro, build) == macro = Always \/ macro \in build

\* Mutant: `if (viable == cap)`.
TierViableExact(viable, cap) == viable = cap

\* `if (viable & cap)`
TierViable(viable, cap) == BitAnd(viable, cap) # 0

\* The inner `switch (kind)`: the entry points of the matching case, none on default.
KindCase(fns, k) == { kf[2] : kf \in { x \in fns : x[1] = k } }

\* Where `switch (datatype)` jumps: the statement after the matching case label,
\* past the end of the body when no label matches.
JumpTable ==
    [ d \in Datatypes |->
        IF \E i \in 1..Len(SwitchBody) :
             SwitchBody[i].op = "case" /\ SwitchBody[i].datatype = d
        THEN 1 + CHOOSE i \in 1..Len(SwitchBody) :
                     SwitchBody[i].op = "case" /\ SwitchBody[i].datatype = d
        ELSE Len(SwitchBody) + 1 ]

SwitchJump(d) == JumpTable[d]

\* Mutant: the break is missing and control runs on into the next case.
AfterBreakFallsThrough(pos) == pos + 1

\* A break leaves the switch, and the function returns with the outputs as
\* they stand.
AfterBreak(pos) == Len(SwitchBody) + 1

\* Mutant: a viable tier that lacks the kind ends the walk (its inner switch
\* returns on default instead of breaking).
RECURSIVE ExecAbandon(_, _, _, _, _, _, _)
ExecAbandon(pos, k, viable, build, m, c, seen) ==
    IF pos > Len(SwitchBody)
    THEN [m |-> m, c |-> c, examined |-> seen]
    ELSE LET s == SwitchBody[pos] IN
         IF s.op = "case" THEN ExecAbandon(pos + 1, k, viable, build, m, c, seen)
         ELSE IF s.op = "break" THEN [m |-> m, c |-> c, examined |-> seen]
         ELSE IF ~Compiled(s.macro, build)
              THEN ExecAbandon(pos + 1, k, viable, build, m, c, seen)
         ELSE IF ~TierViable(viable, s.cap)
              THEN ExecAbandon(pos + 1, k, viable, build, m, c, Append(seen, pos))
         ELSE IF KindCase(s.fns, k) # {}
              THEN [m |-> CHOOSE f \in KindCase(s.fns, k) : TRUE, c |-> s.cap,
                    examined |-> Append(seen, pos)]
              ELSE [m |-> m, c |-> c, examined |-> Append(seen, pos)]

\* Execution of the switch body from statement pos on; m and c are the
\* outputs as written so far, seen the tier `if`s evaluated so far.
RECURSIVE Exec(_, _, _, _, _, _, _)
Exec(pos, k, viable, build, m, c, seen) ==
    IF pos > Len(SwitchBody)
    THEN [m |-> m, c |-> c, examined |-> seen]
    ELSE LET s == SwitchBody[pos] IN
         IF s.op = "case" THEN Exec(pos + 1, k, viable, build, m, c, seen)
         ELSE IF s.op = "break" THEN Exec(AfterBreak(pos), k, viable, build, m, c, seen)
         ELSE IF ~Compiled(s.macro, build) THEN Exec(pos + 1, k, viable, build, m, c, seen)
         ELSE IF TierViable(viable, s.cap) /\ KindCase(s.fns, k) # {}
              THEN [m |-> CHOOSE f \in KindCase(s.fns, k) : TRUE, c |-> s.cap,
                    examined |-> Append(seen, pos)]
              ELSE Exec(pos + 1, k, viable, build, m, c, Append(seen, pos))

\* *m = 0, *c = 0: what the two outputs hold once lines 276-277 have run over
\* the values m0, c0 the caller left in them.
\* Mutant: the entry point is cleared on entry, the capability is not.
ClearOutputsMetricOnly(m0, c0) == [m |-> NULL, c |-> c0]

\* Mutant: the two outputs are not cleared on entry.
ClearOutputsSkipped(m0, c0) == [m |-> m0, c |-> c0]

ClearOutputs(m0, c0) == [m |-> NULL, c |-> 0]

\* The whole call on outputs that hold m0, c0: the outputs are zeroed, then
\* the switch runs.
FindMetricPunned(k, d, sup, alw, build, m0, c0) ==
    LET out == ClearOutputs(m0, c0)
    IN Exec(SwitchJump(d), k, Viable(sup, alw), build, out.m, out.c, <<>>)

-----------------------------------------------------------------------------
(* simsimd_capabilities *)

\* (word & mask) != 0, as an unsigned 0 or 1
Flag(word, mask) == IF BitAnd(word, mask) # 0 THEN 1 ELSE 0

\* a && b on 0/1 values
LAnd(a, b) == IF a # 0 /\ b # 0 THEN 1 ELSE 0

HWCAP_SVE == 4194304    \* 1 << 22, <asm/hwcap.h>
HWCAP2_SVE2 == 2        \* 1 << 1,  <asm/hwcap.h>

CapabilitiesX86(ecx1, ebx7, edx7) ==
    LET supports_avx2 == Flag(ebx7, 32)                   \* 0x00000020
        supports_f16c == Flag(ecx1, 536870912)            \* 0x20000000
        supports_fma == Flag(ecx1, 4096)                  \* 0x00001000
        supports_avx512f == Flag(ebx7, 65536)             \* 0x00010000
        supports_avx512ifma == Flag(ebx7, 2097152)        \* 0x00200000
        supports_avx512fp16 == Flag(edx7, 8388608)        \* 0x00800000
        supports_avx512vpopcntdq == Flag(ecx1, 16384)     \* 0x00004000
        supports_avx512vbmi2 == Flag(ecx1, 64)            \* 0x00000040
        supports_avx512vnni == Flag(ecx1, 2048)           \* 0x00000800
        supports_avx512bitalg == Flag(ecx1, 4096)         \* 0x00001000
        supports_haswell == LAnd(LAnd(supports_avx2, supports_f16c), supports_fma)
        supports_skylake == supports_avx512f
        supports_ice ==
            LAnd(LAnd(LAnd(LAnd(supports_avx512vnni, supports_avx512ifma),
                           supports_avx512bitalg), supports_avx512vbmi2),
                 supports_avx512vpopcntdq)
        supports_sapphire == supports_avx512fp16
    IN BitOr(BitOr(BitOr(BitOr(simsimd_cap_haswell_k * supports_haswell,
                               simsimd_cap_skylake_k * supports_skylake),
                         simsimd_cap_ice_k * supports_ice),
                   simsimd_cap_sapphire_k * supports_sapphire),
             simsimd_cap_serial_k)

\* Mutant: the auxiliary vector is read on every OS.
CapabilitiesArmAnyOS(build, aux, aux2) ==
    LET supports_neon == 1
        supports_sve == Flag(aux, HWCAP_SVE)
        supports_sve2 == Flag(aux2, HWCAP2_SVE2)
    IN BitOr(BitOr(BitOr(simsimd_cap_neon_k * supports_neon,
                         simsimd_cap_sve_k * supports_sve),
                   simsimd_cap_sve2_k * supports_sve2),
             simsimd_cap_serial_k)

CapabilitiesArm(build, aux, aux2) ==
    LET supports_neon == 1
        supports_sve == IF "__linux__" \in build THEN Flag(aux, HWCAP_SVE) ELSE 0
        supports_sve2 == IF "__linux__" \in build THEN Flag(aux2, HWCAP2_SVE2) ELSE 0
    IN BitOr(BitOr(BitOr(simsimd_cap_neon_k * supports_neon,
                         simsimd_cap_sve_k * supports_sve),
                   simsimd_cap_sve2_k * supports_sve2),
             simsimd_cap_serial_k)

\* Mutant: the build for neither architecture reports no tier at all.
CapabilitiesNoFallback(build, ecx1, ebx7, edx7, aux, aux2) ==
    IF "SIMSIMD_TARGET_X86" \in build THEN CapabilitiesX86(ecx1, ebx7, edx7)
    ELSE IF "SIMSIMD_TARGET_ARM" \in build THEN CapabilitiesArm(build, aux, aux2)
    ELSE 0

\* The first return the preprocessor leaves in the function is the one taken.
Capabilities(build, ecx1, ebx7, edx7, aux, aux2) ==
    IF "SIMSIMD_TARGET_X86" \in build THEN CapabilitiesX86(ecx1, ebx7, edx7)
    ELSE IF "SIMSIMD_TARGET_ARM" \in build THEN CapabilitiesArm(build, aux, aux2)
    ELSE simsimd_cap_serial_k

-----------------------------------------------------------------------------
(* Builds: which macros the preprocessor sees as 1 *)

X86Targets ==
    { "SIMSIMD_TARGET_HASWELL", "SIMSIMD_TARGET_SKYLAKE", "SIMSIMD_TARGET_ICE",
      "SIMSIMD_TARGET_SAPPHIRE" }

ArmTargets == { "SIMSIMD_TARGET_NEON", "SIMSIMD_TARGET_SVE" }

\* The x86 kernel sets: all four, all but one, and none.  No case of the
\* switch tests more than two x86 macros, and every pair of them takes all four
\* on/off combinations here.
X86Builds ==
    { X86Targets \ M : M \in { N \in SUBSET X86Targets : Cardinality(N) <= 1 } }
    \cup { {} }

\* An x86 build, an ARM build (on Linux or not) with any subset of the ARM
\* kernels, or a build for neither architecture.
Builds ==
    { {"SIMSIMD_TARGET_X86"} \cup S : S \in X86Builds } \cup
    { {"SIMSIMD_TARGET_ARM"} \cup S \cup L :
          S \in SUBSET ArmTargets, L \in { {}, {"__linux__"} } } \cup
    { {} }

-----------------------------------------------------------------------------
(* Inputs *)

RECURSIVE SumOf(_)
SumOf(S) == IF S = {} THEN 0 ELSE LET x == CHOOSE y \in S : TRUE IN x + SumOf(S \ {x})

\* Every word whose set bits are among `bits`.
Words(bits) == { SumOf(S) : S \in SUBSET bits }

X86Caps ==
    { simsimd_cap_haswell_k, simsimd_cap_skylake_k, simsimd_cap_ice_k,
      simsimd_cap_sapphire_k }

\* simsimd_cap_sve2_k is tested by no case of the switch; masks carry it only
\* as part of simsimd_cap_any_k.
ArmCaps == { simsimd_cap_neon_k, simsimd_cap_sve_k }

\* The tier bits a mask passed in this build is drawn from: the serial bit and
\* the bits of the build's architecture family; in a build for neither, the
\* serial bit and the lowest bit of each family.
CapBits(build) ==
    { simsimd_cap_serial_k } \cup
    ( IF "SIMSIMD_TARGET_X86" \in build THEN X86Caps
      ELSE IF "SIMSIMD_TARGET_ARM" \in build THEN ArmCaps
      ELSE { simsimd_cap_neon_k, simsimd_cap_haswell_k } )

MaskTable ==
    [ build \in Builds |->
        { SumOf(S) : S \in { T \in SUBSET CapBits(build) : Cardinality(T) <= MaxCapBits } }
        \cup { simsimd_cap_any_k } ]

Masks(build) == MaskTable[build]

\* Register contents: every combination of the bits the probe tests.
Ecx1Words(build) ==
    IF "SIMSIMD_TARGET_X86" \in build
    THEN Words({64, 2048, 4096, 16384, 536870912}) ELSE {0}

Ebx7Words(build) ==
    IF "SIMSIMD_TARGET_X86" \in build THEN Words({32, 65536, 2097152}) ELSE {0}

Edx7Words(build) ==
    IF "SIMSIMD_TARGET_X86" \in build THEN Words({8388608}) ELSE {0}

\* Auxiliary-vector words: the tested bit and one bit the probe ignores.
HwcapWords(build) ==
    IF "SIMSIMD_TARGET_ARM" \in build THEN Words({HWCAP_SVE, 2}) ELSE {0}

Hwcap2Words(build) ==
    IF "SIMSIMD_TARGET_ARM" \in build THEN Words({HWCAP2_SVE2, 1}) ELSE {0}

-----------------------------------------------------------------------------
(* The state machine: one build, one call *)

Init ==
    /\ defined \in Builds
    /\ pc = "idle"
    /\ kind = simsimd_metric_unknown_k
    /\ datatype = simsimd_datatype_unknown_k
    /\ supported = 0
    /\ allowed = 0
    /\ metric_output = NULL                      \* simsimd_metric_punned: result = 0
    /\ capability_output = simsimd_cap_serial_k  \* simsimd_metric_punned: c = serial
    /\ examined = << >>
    /\ info1_ecx = 0 /\ info7_ebx = 0 /\ info7_edx = 0
    /\ hwcap = 0 /\ hwcap2 = 0
    /\ caps = 0
    /\ threads = << >> /\ memory = << >>

\* simsimd_find_metric_punned(k, d, sup, alw, &metric_output, &capability_output)
Find ==
    /\ pc = "idle"
    /\ \E k \in MetricKinds, d \in Datatypes :
       \E sup \in Masks(defined), alw \in Masks(defined) :
          LET r == FindMetricPunned(k, d, sup, alw, defined,
                                    metric_output, capability_output) IN
          /\ kind' = k
          /\ datatype' = d
          /\ supported' = sup
          /\ allowed' = alw
          /\ metric_output' = r.m
          /\ capability_output' = r.c
          /\ examined' = r.examined
    /\ pc' = "find"
    /\ UNCHANGED <<defined, info1_ecx, info7_ebx, info7_edx, hwcap, hwcap2, caps,
                   threads, memory>>

\* simsimd_capabilities() on a machine whose registers hold the drawn words
Probe ==
    /\ pc = "idle"
    /\ \E ecx1 \in Ecx1Words(defined), ebx7 \in Ebx7Words(defined),
          edx7 \in Edx7Words(defined) :
       \E aux \in HwcapWords(defined), aux2 \in Hwcap2Words(defined) :
          /\ info1_ecx' = ecx1
          /\ info7_ebx' = ebx7
          /\ info7_edx' = edx7
          /\ hwcap' = aux
          /\ hwcap2' = aux2
          /\ caps' = Capabilities(defined, ecx1, ebx7, edx7, aux, aux2)
    /\ pc' = "probe"
    /\ UNCHANGED <<defined, kind, datatype, supported, allowed, metric_output,
                   capability_output, examined, threads, memory>>

Next == Find \/ Probe

Spec == Init /\ [][Next]_vars

TypeOK ==
    /\ defined \in Builds
    /\ pc \in {"idle", "find", "probe", "punned"}
    /\ kind \in MetricKinds
    /\ datatype \in Datatypes
    /\ capability_output \in 0..simsimd_cap_any_k

-----------------------------------------------------------------------------
(* simsimd_metric_punned: the probe and the resolver in one call *)

\* Mutant: the wrapper takes every tier as supported instead of probing.
MetricPunnedNoProbe(k, d, alw, build, ecx1, ebx7, edx7, aux, aux2) ==
    LET result == NULL
        c == simsimd_cap_serial_k
        sup == simsimd_cap_any_k
    IN FindMetricPunned(k, d, sup, alw, build, result, c).m

\* The value of `return result;`: the entry point.  The tier is left in the
\* local c, which no caller can reach.
MetricPunned(k, d, alw, build, ecx1, ebx7, edx7, aux, aux2) ==
    LET result == NULL
        c == simsimd_cap_serial_k
        sup == Capabilities(build, ecx1, ebx7, edx7, aux, aux2)
    IN FindMetricPunned(k, d, sup, alw, build, result, c).m

\* The machines the wrapper is run on: register and auxiliary-vector words
\* that between them produce every mask the probe can return.
MachineTable ==
    [ build \in Builds |->
        IF "SIMSIMD_TARGET_X86" \in build
        THEN { <<ecx1, ebx7, edx7, 0, 0>> :
                 ecx1 \in {0, SumOf({64, 2048, 4096, 16384, 536870912})},
                 ebx7 \in Ebx7Words(build), edx7 \in Edx7Words(build) }
        ELSE IF "SIMSIMD_TARGET_ARM" \in build
        THEN { <<0, 0, 0, aux, aux2>> :
                 aux \in {0, HWCAP_SVE}, aux2 \in {0, HWCAP2_SVE2} }
        ELSE { <<0, 0, 0, 0, 0>> } ]

Machines(build) == MachineTable[build]

\* The caller of the wrapper: it holds the returned entry point in
\* metric_output; its capability_output, if it keeps one, is not passed.
InitPunned ==
    /\ defined \in Builds
    /\ pc = "idle"
    /\ kind = simsimd_metric_unknown_k
    /\ datatype = simsimd_datatype_unknown_k
    /\ supported = 0
    /\ allowed = 0
    /\ metric_output = NULL
    /\ capability_output = 0
    /\ examined = << >>
    /\ info1_ecx = 0 /\ info7_ebx = 0 /\ info7_edx = 0
    /\ hwcap = 0 /\ hwcap2 = 0
    /\ caps = 0
    /\ threads = << >> /\ memory = << >>

\* metric_output = simsimd_metric_punned(k, d, alw) on machine mach
PunnedCall ==
    /\ pc = "idle"
    /\ \E k \in MetricKinds, d \in Datatypes, alw \in Masks(defined) :
       \E mach \in Machines(defined) :
          /\ kind' = k
          /\ datatype' = d
          /\ allowed' = alw
          /\ info1_ecx' = mach[1]
          /\ info7_ebx' = mach[2]
          /\ info7_edx' = mach[3]
          /\ hwcap' = mach[4]
          /\ hwcap2' = mach[5]
          /\ caps' = Capabilities(defined, mach[1], mach[2], mach[3], mach[4], mach[5])
          /\ supported' = caps'
          /\ metric_output' =
                MetricPunned(k, d, alw, defined, mach[1], mach[2], mach[3],
                             mach[4], mach[5])
    /\ pc' = "punned"
    /\ UNCHANGED <<defined, capability_output, examined, threads, memory>>

NextPunned == PunnedCall

SpecPunned == InitPunned /\ [][NextPunned]_vars

-----------------------------------------------------------------------------
(* Concurrent calls, one statement at a time *)

Threads == 1..NumThreads

\* Mutant: viable is one static variable that every call uses.
ViableStatic(t) == <<"viable", 0>>

\* `simsimd_capability_t viable` is a local: every call has its own.
ViableSlot(t) == <<"viable", t>>

\* Every caller passes the addresses of two variables of its own.
MetricOutput(t) == <<"metric_output", t>>

CapabilityOutput(t) == <<"capability_output", t>>

\* The feature registers and the auxiliary vector: read by every probe,
\* written by none.
Machine == <<"machine", 0>>

Locations ==
    ({"viable", "metric_output", "capability_output"} \X (0..NumThreads))
    \cup {Machine}

\* The builds the concurrent calls are run in: every x86 kernel, every ARM
\* kernel on Linux, and no kernel but the serial ones.
ConcBuilds ==
    { {"SIMSIMD_TARGET_X86"} \cup X86Targets,
      {"SIMSIMD_TARGET_ARM", "__linux__"} \cup ArmTargets,
      {} }

\* A machine that reports every tested feature.
ConcMachine(build) ==
    IF "SIMSIMD_TARGET_X86" \in build
    THEN <<SumOf({64, 2048, 4096, 16384, 536870912}), SumOf({32, 65536, 2097152}),
           8388608, 0, 0>>
    ELSE IF "SIMSIMD_TARGET_ARM" \in build
    THEN <<0, 0, 0, HWCAP_SVE, HWCAP2_SVE2>>
    ELSE <<0, 0, 0, 0, 0>>

\* The resolver calls the threads choose from: <<kind, datatype, supported,
\* allowed>>.  One takes the most advanced tier, one is held to serial, one
\* matches nothing and leaves the switch through the f64c case.
ConcCalls ==
    { <<simsimd_metric_dot_k, simsimd_datatype_f32_k, simsimd_cap_any_k,
        simsimd_cap_any_k>>,
      <<simsimd_metric_dot_k, simsimd_datatype_f32_k, simsimd_cap_any_k,
        simsimd_cap_serial_k>>,
      <<simsimd_metric_cos_k, simsimd_datatype_f32c_k, simsimd_cap_any_k,
        simsimd_cap_any_k>> }

\* From pos, the next tier test the compiled function contains, or a position
\* past the switch if a break or the end of the switch comes first.
RECURSIVE NextTest(_, _)
NextTest(pos, build) ==
    IF pos > Len(SwitchBody) THEN pos
    ELSE LET s == SwitchBody[pos] IN
         IF s.op = "case" THEN NextTest(pos + 1, build)
         ELSE IF s.op = "break" THEN AfterBreak(pos)
         ELSE IF ~Compiled(s.macro, build) THEN NextTest(pos + 1, build)
         ELSE pos

IdleThread ==
    [pc |-> "idle", op |-> "none", kind |-> simsimd_metric_unknown_k,
     datatype |-> simsimd_datatype_unknown_k, supported |-> 0, allowed |-> 0,
     pos |-> 0, info |-> <<0, 0, 0, 0, 0>>, ret |-> 0,
     loads |-> {}, stores |-> {}]

InitConc ==
    /\ defined \in ConcBuilds
    /\ pc = "idle"
    /\ kind = simsimd_metric_unknown_k
    /\ datatype = simsimd_datatype_unknown_k
    /\ supported = 0
    /\ allowed = 0
    /\ metric_output = NULL
    /\ capability_output = simsimd_cap_serial_k
    /\ examined = << >>
    /\ info1_ecx = ConcMachine(defined)[1]
    /\ info7_ebx = ConcMachine(defined)[2]
    /\ info7_edx = ConcMachine(defined)[3]
    /\ hwcap = ConcMachine(defined)[4]
    /\ hwcap2 = ConcMachine(defined)[5]
    /\ caps = 0
    /\ threads = [t \in Threads |-> IdleThread]
    /\ memory = [l \in Locations |->
                    IF l[1] = "metric_output" THEN NULL
                    ELSE IF l[1] = "capability_output" THEN simsimd_cap_serial_k
                    ELSE 0]

\* What no statement of either function changes: the build, the registers of
\* the machine, and the variables of the one-call specifications.
rest ==
    <<defined, pc, kind, datatype, supported, allowed, metric_output,
      capability_output, examined, info1_ecx, info7_ebx, info7_edx, hwcap,
      hwcap2, caps>>

\* Thread t enters simsimd_find_metric_punned with its own outputs.
InvokeFind(t) ==
    /\ threads[t].pc = "idle"
    /\ \E call \in ConcCalls :
          threads' = [threads EXCEPT ![t] =
                         [@ EXCEPT !.pc = "viable", !.op = "find",
                                   !.kind = call[1], !.datatype = call[2],
                                   !.supported = call[3], !.allowed = call[4]]]
    /\ UNCHANGED <<memory, rest>>

\* Thread t enters simsimd_capabilities.
InvokeProbe(t) ==
    /\ threads[t].pc = "idle"
    /\ threads' = [threads EXCEPT ![t] = [@ EXCEPT !.pc = "cpuid", !.op = "probe"]]
    /\ UNCHANGED <<memory, rest>>

\* viable = supported & allowed;
FindViable(t) ==
    /\ threads[t].pc = "viable"
    /\ memory' = [memory EXCEPT ![ViableSlot(t)] =
                     Viable(threads[t].supported, threads[t].allowed)]
    /\ threads' = [threads EXCEPT ![t] =
                      [@ EXCEPT !.pc = "clear_m",
                                !.stores = @ \cup {ViableSlot(t)}]]
    /\ UNCHANGED rest

\* *m = (m_t)0;
FindClearMetric(t) ==
    /\ threads[t].pc = "clear_m"
    /\ memory' = [memory EXCEPT ![MetricOutput(t)] =
                     ClearOutputs(memory[MetricOutput(t)],
                                  memory[CapabilityOutput(t)]).m]
    /\ threads' = [threads EXCEPT ![t] =
                      [@ EXCEPT !.pc = "clear_c",
                                !.stores = @ \cup {MetricOutput(t)}]]
    /\ UNCHANGED rest

\* *c = (simsimd_capability_t)0; switch (datatype)
FindClearCapability(t) ==
    /\ threads[t].pc = "clear_c"
    /\ memory' = [memory EXCEPT ![CapabilityOutput(t)] =
                     ClearOutputs(memory[MetricOutput(t)],
                                  memory[CapabilityOutput(t)]).c]
    /\ threads' = [threads EXCEPT ![t] =
                      [@ EXCEPT !.pc = "walk", !.pos = SwitchJump(threads[t].datatype),
                                !.stores = @ \cup {CapabilityOutput(t)}]]
    /\ UNCHANGED rest

\* if (viable & cap) switch (kind): on to the stores of the matching case, or
\* on to the next statement.
FindTest(t) ==
    /\ threads[t].pc = "walk"
    /\ LET p == NextTest(threads[t].pos, defined) IN
       /\ p <= Len(SwitchBody)
       /\ LET s == SwitchBody[p]
              viable == memory[ViableSlot(t)]
              hit == TierViable(viable, s.cap) /\ KindCase(s.fns, threads[t].kind) # {}
          IN threads' = [threads EXCEPT ![t] =
                            [@ EXCEPT !.pc = IF hit THEN "store_m" ELSE "walk",
                                      !.pos = IF hit THEN p ELSE p + 1,
                                      !.loads = @ \cup {ViableSlot(t)}]]
    /\ UNCHANGED <<memory, rest>>

\* A break, or the end of the switch: the function returns.
FindReturn(t) ==
    /\ threads[t].pc = "walk"
    /\ NextTest(threads[t].pos, defined) > Len(SwitchBody)
    /\ threads' = [threads EXCEPT ![t] = [@ EXCEPT !.pc = "done"]]
    /\ UNCHANGED <<memory, rest>>

\* *m = (m_t)&simsimd_<kind>_<datatype>_<isa>,
FindStoreMetric(t) ==
    /\ threads[t].pc = "store_m"
    /\ memory' = [memory EXCEPT ![MetricOutput(t)] =
                     CHOOSE f \in KindCase(SwitchBody[threads[t].pos].fns,
                                           threads[t].kind) : TRUE]
    /\ threads' = [threads EXCEPT ![t] = [@ EXCEPT !.pc = "store_c"]]
    /\ UNCHANGED rest

\* *c = simsimd_cap_<isa>_k; return;
FindStoreCapability(t) ==
    /\ threads[t].pc = "store_c"
    /\ memory' = [memory EXCEPT ![CapabilityOutput(t)] =
                     SwitchBody[threads[t].pos].cap]
    /\ threads' = [threads EXCEPT ![t] = [@ EXCEPT !.pc = "done"]]
    /\ UNCHANGED rest

\* The cpuid instructions and getauxval calls, into the locals of the probe.
ProbeRead(t) ==
    /\ threads[t].pc = "cpuid"
    /\ threads' = [threads EXCEPT ![t] =
                      [@ EXCEPT !.pc = "return",
                                !.info = <<info1_ecx, info7_ebx, info7_edx,
                                           hwcap, hwcap2>>,
                                !.loads = @ \cup {Machine}]]
    /\ UNCHANGED <<memory, rest>>

\* return (simsimd_capability_t)(...);
ProbeReturn(t) ==
    /\ threads[t].pc = "return"
    /\ threads' = [threads EXCEPT ![t] =
                      [@ EXCEPT !.pc = "done",
                                !.ret = Capabilities(defined, threads[t].info[1],
                                                     threads[t].info[2],
                                                     threads[t].info[3],
                                                     threads[t].info[4],
                                                     threads[t].info[5])]]
    /\ UNCHANGED <<memory, rest>>

NextConc ==
    \E t \in Threads :
        \/ InvokeFind(t)
        \/ InvokeProbe(t)
        \/ FindViable(t)
        \/ FindClearMetric(t)
        \/ FindClearCapability(t)
        \/ FindTest(t)
        \/ FindReturn(t)
        \/ FindStoreMetric(t)
        \/ FindStoreCapability(t)
        \/ ProbeRead(t)
        \/ ProbeReturn(t)

SpecConc == InitConc /\ [][NextConc]_vars

-----------------------------------------------------------------------------
(* The kernel catalog read off the switch, and the vocabulary of the claims *)

\* The tier blocks written under the case label of datatype d, by position:
\* from the label to the next case label, whether or not a break stands between.
Cascade ==
    [ d \in Datatypes |->
        { i \in 1..Len(SwitchBody) :
            /\ SwitchBody[i].op = "if"
            /\ i >= JumpTable[d]
            /\ \A j \in JumpTable[d]..i : SwitchBody[j].op # "case" } ]

\* Block i has an inner case for kind k.
Registers(i, k) == \E kf \in SwitchBody[i].fns : kf[1] = k

\* Some block of d's cascade has a case for k / the serial block of d has one.
Registered(k, d) == \E i \in Cascade[d] : Registers(i, k)

SerialRegistered(k, d) ==
    \E i \in Cascade[d] : SwitchBody[i].cap = simsimd_cap_serial_k /\ Registers(i, k)

\* Block i is in this build, its bit is in supported & allowed, and it has
\* the requested kind.
Eligible(i) ==
    /\ SwitchBody[i].macro \in defined \cup {Always}
    /\ BitAnd(BitAnd(supported, allowed), SwitchBody[i].cap) # 0
    /\ Registers(i, kind)

Has(mask, bit) == BitAnd(mask, bit) = bit

\* The names the enumerators give to kinds, datatypes and tiers, as they are
\* spelled in kernel names.
KindName(k) ==
    CASE k = simsimd_metric_dot_k -> "dot"
      [] k = simsimd_metric_vdot_k -> "vdot"
      [] k = simsimd_metric_cos_k -> "cos"
      [] k = simsimd_metric_l2sq_k -> "l2sq"
      [] k = simsimd_metric_hamming_k -> "hamming"
      [] k = simsimd_metric_jaccard_k -> "jaccard"
      [] k = simsimd_metric_kl_k -> "kl"
      [] k = simsimd_metric_js_k -> "js"
      [] OTHER -> "unknown"

DatatypeName(d) ==
    CASE d = simsimd_datatype_f64_k -> "f64"
      [] d = simsimd_datatype_f32_k -> "f32"
      [] d = simsimd_datatype_f16_k -> "f16"
      [] d = simsimd_datatype_i8_k -> "i8"
      [] d = simsimd_datatype_b8_k -> "b8"
      [] d = simsimd_datatype_f64c_k -> "f64c"
      [] d = simsimd_datatype_f32c_k -> "f32c"
      [] d = simsimd_datatype_f16c_k -> "f16c"
      [] d = simsimd_datatype_i8c_k -> "i8c"
      [] OTHER -> "unknown"

IsaName(c) ==
    CASE c = simsimd_cap_serial_k -> "serial"
      [] c = simsimd_cap_neon_k -> "neon"
      [] c = simsimd_cap_sve_k -> "sve"
      [] c = simsimd_cap_sve2_k -> "sve2"
      [] c = simsimd_cap_haswell_k -> "haswell"
      [] c = simsimd_cap_skylake_k -> "skylake"
      [] c = simsimd_cap_ice_k -> "ice"
      [] c = simsimd_cap_sapphire_k -> "sapphire"
      [] OTHER -> "none"

-----------------------------------------------------------------------------
(* C1 *)

\* C1: the capability written by simsimd_find_metric_punned is zero or exactly
\* one tier bit, and that bit is set in supported & allowed.
C1_SelectedTierIsViable ==
    pc = "find" =>
        \/ capability_output = 0
        \/ /\ capability_output \in TierCaps
           /\ Has(supported, capability_output)
           /\ Has(allowed, capability_output)

\* A tier the hardware reports but the caller does not allow is passed over.
C1_Witness ==
    /\ pc = "find"
    /\ kind = simsimd_metric_dot_k /\ datatype = simsimd_datatype_f32_k
    /\ "SIMSIMD_TARGET_SKYLAKE" \in defined
    /\ supported = simsimd_cap_skylake_k + simsimd_cap_serial_k
    /\ allowed = simsimd_cap_serial_k
    /\ capability_output = simsimd_cap_serial_k

-----------------------------------------------------------------------------
(* C2 *)

\* The eligible blocks of the requested datatype's cascade.
EligibleBlocks == { i \in Cascade[datatype] : Eligible(i) }

\* C2: the call returns the entry point and bit of the first block, in the
\* order the datatype's blocks are written, that is compiled in, has its bit
\* in supported & allowed and has a case for the kind; null and zero when no
\* block is such.  A viable block without the kind does not stop the walk.
C2_FirstEligibleTier ==
    pc = "find" =>
        IF EligibleBlocks = {}
        THEN metric_output = NULL /\ capability_output = 0
        ELSE LET first == CHOOSE i \in EligibleBlocks :
                              \A j \in EligibleBlocks : i <= j
             IN /\ capability_output = SwitchBody[first].cap
                /\ <<kind, metric_output>> \in SwitchBody[first].fns

\* f16 with Jensen-Shannon and sve, neon and serial all viable: sve has no
\* such case, and the neon kernel is returned.
C2_Witness ==
    /\ pc = "find"
    /\ kind = simsimd_metric_js_k /\ datatype = simsimd_datatype_f16_k
    /\ {"SIMSIMD_TARGET_SVE", "SIMSIMD_TARGET_NEON"} \subseteq defined
    /\ Has(BitAnd(supported, allowed),
           simsimd_cap_sve_k + simsimd_cap_neon_k + simsimd_cap_serial_k)
    /\ metric_output = Fn("js", "f16", "neon")
    /\ capability_output = simsimd_cap_neon_k

-----------------------------------------------------------------------------
(* C3 *)

\* C3: a (kind, datatype) pair that no block of the datatype's case registers
\* resolves to a null entry point and a zero capability, whatever the masks.
C3_UnregisteredIsNull ==
    pc = "find" /\ ~Registered(kind, datatype) =>
        metric_output = NULL /\ capability_output = 0

\* Cosine on f32c with every tier supported and allowed: control runs through
\* the f32c blocks into the f64c blocks and still finds nothing.
C3_Witness ==
    /\ pc = "find"
    /\ kind = simsimd_metric_cos_k /\ datatype = simsimd_datatype_f32c_k
    /\ supported = simsimd_cap_any_k /\ allowed = simsimd_cap_any_k
    /\ metric_output = NULL /\ capability_output = 0

-----------------------------------------------------------------------------
(* C4 *)

\* C4: a kind that the serial block of the datatype registers resolves to a
\* non-null entry point whenever both masks contain simsimd_cap_serial_k.
C4_SerialRegisteredResolves ==
    pc = "find" /\ SerialRegistered(kind, datatype)
                /\ Has(supported, simsimd_cap_serial_k)
                /\ Has(allowed, simsimd_cap_serial_k)
        => metric_output # NULL

\* Kullback-Leibler on f64 where skylake, which lacks it, is viable too.
C4_Witness ==
    /\ pc = "find"
    /\ kind = simsimd_metric_kl_k /\ datatype = simsimd_datatype_f64_k
    /\ "SIMSIMD_TARGET_SKYLAKE" \in defined
    /\ supported = simsimd_cap_skylake_k + simsimd_cap_serial_k
    /\ allowed = simsimd_cap_any_k
    /\ metric_output = Fn("kl", "f64", "serial")

-----------------------------------------------------------------------------
(* C5 *)

\* C5 as stated: with allowed = simsimd_cap_serial_k alone, every pair the
\* serial tier registers resolves to a serial kernel, for every supported mask.
C5_SerialOnlyAnySupported ==
    pc = "find" /\ SerialRegistered(kind, datatype) /\ allowed = simsimd_cap_serial_k
        => metric_output # NULL /\ capability_output = simsimd_cap_serial_k

\* C5 amended: the same for every supported mask that contains
\* simsimd_cap_serial_k.
C5_SerialOnlyValidSupported ==
    pc = "find" /\ SerialRegistered(kind, datatype) /\ allowed = simsimd_cap_serial_k
                /\ Has(supported, simsimd_cap_serial_k)
        => metric_output # NULL /\ capability_output = simsimd_cap_serial_k

\* Hamming on b8, serial alone allowed, on hardware that reports ice as well.
C5_Witness ==
    /\ pc = "find"
    /\ kind = simsimd_metric_hamming_k /\ datatype = simsimd_datatype_b8_k
    /\ "SIMSIMD_TARGET_ICE" \in defined
    /\ supported = simsimd_cap_ice_k + simsimd_cap_serial_k
    /\ allowed = simsimd_cap_serial_k
    /\ metric_output = Fn("hamming", "b8", "serial")
    /\ capability_output = simsimd_cap_serial_k

-----------------------------------------------------------------------------
(* C6 *)

\* Tier a is a more advanced tier of the family of tier b: the enumerators of
\* one family grow with the extensions they need, and serial is below both.
X86Order == { simsimd_cap_serial_k } \cup X86Caps

ArmOrder == { simsimd_cap_serial_k, simsimd_cap_neon_k, simsimd_cap_sve_k, simsimd_cap_sve2_k }

MoreAdvanced(a, b) ==
    /\ a > b
    /\ \/ {a, b} \subseteq X86Order
       \/ {a, b} \subseteq ArmOrder

\* C6: the selected tier is never one that a more advanced tier of the same
\* family dominates, when that tier too is compiled in, viable and registers
\* the kind for the datatype.
C6_PriorityDominance ==
    pc = "find" /\ capability_output # 0 =>
        \A i \in EligibleBlocks : ~MoreAdvanced(SwitchBody[i].cap, capability_output)

-----------------------------------------------------------------------------
(* C7 *)

\* Priority of a chosen tier in the cascade of datatype d: the earlier its
\* block the higher, zero for no tier.
Priority(d, c) ==
    IF c = 0 THEN 0
    ELSE IF \E i \in Cascade[d] : SwitchBody[i].cap = c
         THEN Len(SwitchBody) + 1 - (CHOOSE i \in Cascade[d] : SwitchBody[i].cap = c)
         ELSE -1

\* C7: for the kind, datatype and supported mask of the call, every allowed
\* mask contained in the one passed gives a tier of equal or lower priority
\* than the tier the call chose.
C7_Monotone ==
    pc = "find" =>
        \A allowed1 \in Masks(defined) \ {allowed} :
            Has(allowed, allowed1) =>
                /\ Priority(datatype, capability_output) >= 0
                /\ Priority(datatype,
                            FindMetricPunned(kind, datatype, supported, allowed1, defined,
                                             NULL, simsimd_cap_serial_k).c)
                     <= Priority(datatype, capability_output)

\* Hamming on b8 with ice and haswell allowed resolves to ice; with haswell
\* alone allowed, to haswell, further down the cascade.
C7_Witness ==
    /\ pc = "find"
    /\ kind = simsimd_metric_hamming_k /\ datatype = simsimd_datatype_b8_k
    /\ {"SIMSIMD_TARGET_ICE", "SIMSIMD_TARGET_HASWELL"} \subseteq defined
    /\ supported = simsimd_cap_any_k
    /\ allowed = simsimd_cap_ice_k + simsimd_cap_haswell_k
    /\ capability_output = simsimd_cap_ice_k
    /\ FindMetricPunned(kind, datatype, supported, simsimd_cap_haswell_k, defined,
                        NULL, simsimd_cap_serial_k).c
         = simsimd_cap_haswell_k
    /\ Priority(datatype, simsimd_cap_haswell_k) < Priority(datatype, simsimd_cap_ice_k)

-----------------------------------------------------------------------------
(* C8 *)

\* C8: a non-null entry point is the kernel named for exactly the requested
\* kind, the requested datatype and the tier written to the capability output.
C8_KernelIdentity ==
    pc = "find" /\ metric_output # NULL =>
        metric_output =
            Fn(KindName(kind), DatatypeName(datatype), IsaName(capability_output))

-----------------------------------------------------------------------------
(* C9 *)

\* C9: a non-null entry point returned for datatype D is a kernel of D.
C9_DatatypeKeying ==
    pc = "find" /\ metric_output # NULL =>
        metric_output.datatype = DatatypeName(datatype)

\* The conjugate dot product on f32c with serial alone viable: the last block
\* before the unbroken end of the f32c case returns the f32c kernel.
C9_Witness ==
    /\ pc = "find"
    /\ kind = simsimd_metric_vdot_k /\ datatype = simsimd_datatype_f32c_k
    /\ BitAnd(supported, allowed) = simsimd_cap_serial_k
    /\ metric_output = Fn("vdot", "f32c", "serial")

-----------------------------------------------------------------------------
(* C10 *)

\* C10: the mask simsimd_capabilities returns has simsimd_cap_serial_k set,
\* whatever the registers or auxiliary-vector words hold, on every target.
C10_SerialAlwaysReported ==
    pc = "probe" => Has(caps, simsimd_cap_serial_k)

\* A build for neither architecture: no register is read.
C10_Witness ==
    /\ pc = "probe"
    /\ defined = {}
    /\ caps = simsimd_cap_serial_k

-----------------------------------------------------------------------------
(* C11 *)

\* C11: in every mask simsimd_capabilities returns, a set tier bit comes with
\* the bits of the lower tiers of its family: sapphire with ice, skylake and
\* haswell; ice with skylake and haswell; skylake with haswell; sve2 with sve.
C11_TiersCompose ==
    pc = "probe" =>
        /\ Has(caps, simsimd_cap_sapphire_k) =>
              /\ Has(caps, simsimd_cap_ice_k)
              /\ Has(caps, simsimd_cap_skylake_k)
              /\ Has(caps, simsimd_cap_haswell_k)
        /\ Has(caps, simsimd_cap_ice_k) =>
              /\ Has(caps, simsimd_cap_skylake_k)
              /\ Has(caps, simsimd_cap_haswell_k)
        /\ Has(caps, simsimd_cap_skylake_k) => Has(caps, simsimd_cap_haswell_k)
        /\ Has(caps, simsimd_cap_sve2_k) => Has(caps, simsimd_cap_sve_k)

-----------------------------------------------------------------------------
(* C12 *)

\* No feature query is made in this build: it is for neither architecture, or
\* for ARM on an OS other than Linux.
QueryUnavailable ==
    \/ defined \cap {"SIMSIMD_TARGET_X86", "SIMSIMD_TARGET_ARM"} = {}
    \/ "SIMSIMD_TARGET_ARM" \in defined /\ "__linux__" \notin defined

\* C12 as stated: when no feature query is made, simsimd_capabilities returns
\* exactly simsimd_cap_serial_k.
C12_UnavailableSerialOnly ==
    pc = "probe" /\ QueryUnavailable => caps = simsimd_cap_serial_k

\* C12, amended: when no feature query is made, simsimd_capabilities returns
\* exactly simsimd_cap_serial_k on an unrecognized architecture and exactly
\* simsimd_cap_serial_k | simsimd_cap_neon_k on ARM, whatever the auxiliary
\* vector holds; no bit that needs a query (sve, sve2, any x86 tier) is set.
C12_UnavailableDegrades ==
    pc = "probe" /\ QueryUnavailable =>
        caps = IF "SIMSIMD_TARGET_ARM" \in defined
               THEN simsimd_cap_serial_k + simsimd_cap_neon_k
               ELSE simsimd_cap_serial_k

\* ARM off Linux on a machine whose auxiliary vector would report SVE and SVE2.
C12_Witness ==
    /\ pc = "probe"
    /\ "SIMSIMD_TARGET_ARM" \in defined /\ "__linux__" \notin defined
    /\ BitAnd(hwcap, HWCAP_SVE) # 0 /\ BitAnd(hwcap2, HWCAP2_SVE2) # 0
    /\ caps = simsimd_cap_serial_k + simsimd_cap_neon_k

-----------------------------------------------------------------------------
(* C13 *)

\* C13: every kind that a block of the requested datatype's case registers is
\* registered by the serial block of that case too, and so a call whose viable
\* mask contains simsimd_cap_serial_k returns null exactly when the call with
\* serial alone does: the advanced bits of the mask never decide between null
\* and non-null.
C13_BaselineComplete ==
    pc = "find" =>
        /\ \A i \in Cascade[datatype] :
              Registers(i, kind) => SerialRegistered(kind, datatype)
        /\ Has(Viable(supported, allowed), simsimd_cap_serial_k) =>
              ( metric_output = NULL <=>
                FindMetricPunned(kind, datatype, simsimd_cap_serial_k,
                                 simsimd_cap_serial_k, defined,
                                 NULL, simsimd_cap_serial_k).m = NULL )

\* The f16 divergence with serial and haswell viable in a build with the
\* haswell kernels: the advanced tier answers.
C13_Witness ==
    /\ pc = "find"
    /\ kind = simsimd_metric_js_k /\ datatype = simsimd_datatype_f16_k
    /\ Viable(supported, allowed) = simsimd_cap_serial_k + simsimd_cap_haswell_k
    /\ metric_output = Fn("js", "f16", "haswell")

-----------------------------------------------------------------------------
(* C14 *)

\* What *metric_output and *capability_output may hold when a call starts, other
\* than the initialisers of simsimd_metric_punned: both zero, or the results an
\* earlier call left in them.
StaleOutputs ==
    { <<NULL, 0>>, <<Fn("dot", "f32", "serial"), simsimd_cap_serial_k>> }

\* C14: the entry point and tier written by simsimd_find_metric_punned depend
\* on (kind, datatype, supported, allowed) alone: the same call made with the
\* outputs holding other values beforehand writes the same two results.
C14_OutputsIndependentOfPreCall ==
    pc = "find" =>
        \A pre \in StaleOutputs :
            LET again == FindMetricPunned(kind, datatype, supported, allowed,
                                          defined, pre[1], pre[2])
            IN /\ again.m = metric_output
               /\ again.c = capability_output

\* A call that matches nothing: the outputs are what the entry of the function
\* wrote, not what the caller had put there.
C14_Witness ==
    /\ pc = "find"
    /\ kind = simsimd_metric_dot_k /\ datatype = simsimd_datatype_i8c_k
    /\ supported = simsimd_cap_any_k /\ allowed = simsimd_cap_serial_k
    /\ metric_output = NULL /\ capability_output = 0

-----------------------------------------------------------------------------
(* C15 *)

\* What simsimd_find_metric_punned writes when the caller itself passes the
\* mask simsimd_capabilities() returns on this machine.
Composed ==
    FindMetricPunned(kind, datatype,
                     Capabilities(defined, info1_ecx, info7_ebx, info7_edx,
                                  hwcap, hwcap2),
                     allowed, defined, NULL, 0)

\* C15 as stated: the caller of simsimd_metric_punned holds the entry point
\* and the capability used that the composed call writes.
C15_YieldsEntryAndTier ==
    pc = "punned" =>
        /\ metric_output = Composed.m
        /\ capability_output = Composed.c

\* C15, amended: simsimd_metric_punned returns exactly the entry point that
\* the composed call writes, null for an unsupported combination.
C15_YieldsEntry ==
    pc = "punned" => metric_output = Composed.m

\* An x86 build with the haswell kernels on a machine without AVX2: the
\* wrapper returns the serial kernel although every tier is allowed.
C15_Witness ==
    /\ pc = "punned"
    /\ "SIMSIMD_TARGET_HASWELL" \in defined
    /\ kind = simsimd_metric_cos_k /\ datatype = simsimd_datatype_f16_k
    /\ allowed = simsimd_cap_any_k
    /\ caps = simsimd_cap_serial_k
    /\ metric_output = Fn("cos", "f16", "serial")

-----------------------------------------------------------------------------
(* C16 *)

\* C16: a call made with an alias enumerator writes the entry point and tier
\* that the call with the canonical enumerator writes, for every datatype and
\* pair of masks; and no two canonical enumerators have the same value.
C16_AliasesResolveAlike ==
    /\ pc = "find" =>
          \A p \in AliasOf :
              p[2] = kind =>
                  LET r == FindMetricPunned(p[1], datatype, supported, allowed,
                                            defined, NULL, simsimd_cap_serial_k)
                  IN r.m = metric_output /\ r.c = capability_output
    /\ \A a, b \in DOMAIN CanonicalKinds :
          a # b => CanonicalKinds[a] # CanonicalKinds[b]

\* The Manhattan distance asked of b8 with serial alone allowed: the Hamming
\* kernel answers.
C16_Witness ==
    /\ pc = "find"
    /\ kind = simsimd_metric_manhattan_k /\ datatype = simsimd_datatype_b8_k
    /\ supported = simsimd_cap_any_k /\ allowed = simsimd_cap_serial_k
    /\ metric_output = Fn("hamming", "b8", "serial")

-----------------------------------------------------------------------------
(* C17 *)

\* C17: however the statements of concurrent calls interleave, a finished
\* simsimd_find_metric_punned call has written to its own outputs what the
\* call run alone writes, a finished simsimd_capabilities call has returned
\* what it returns alone, and no call loads or stores a location that another
\* call stores.
C17_ConcurrentAsAlone ==
    \A t \in Threads :
        /\ threads[t].pc = "done" /\ threads[t].op = "find" =>
              LET alone == FindMetricPunned(threads[t].kind, threads[t].datatype,
                                            threads[t].supported, threads[t].allowed,
                                            defined, NULL, simsimd_cap_serial_k)
              IN /\ memory[MetricOutput(t)] = alone.m
                 /\ memory[CapabilityOutput(t)] = alone.c
        /\ threads[t].pc = "done" /\ threads[t].op = "probe" =>
              threads[t].ret = Capabilities(defined, info1_ecx, info7_ebx,
                                            info7_edx, hwcap, hwcap2)
        /\ \A u \in Threads \ {t} :
              (threads[t].loads \cup threads[t].stores) \cap threads[u].stores = {}

\* Thread 1 has resolved the dot product on f32 to an advanced tier while
\* thread 2, held to serial, stands between its two stores.
C17_Witness ==
    /\ threads[1].pc = "done" /\ threads[1].op = "find"
    /\ threads[1].allowed = simsimd_cap_any_k
    /\ memory[MetricOutput(1)] \in { Fn("dot", "f32", "skylake"), Fn("dot", "f32", "neon") }
    /\ threads[2].pc = "store_c" /\ threads[2].allowed = simsimd_cap_serial_k
    /\ memory[MetricOutput(2)] = Fn("dot", "f32", "serial")

-----------------------------------------------------------------------------
(* C18 *)

\* The register and the bit through which the probe decides each extension:
\* <<cpuid leaf, register, mask>>.
FeatureBit ==
    [ ext \in { "avx2", "f16c", "fma", "avx512f", "avx512ifma", "avx512fp16",
                "avx512vpopcntdq", "avx512vbmi2", "avx512vnni", "avx512bitalg" } |->
        CASE ext = "avx2" -> <<7, "ebx", 32>>                   \* 0x00000020
          [] ext = "f16c" -> <<1, "ecx", 536870912>>            \* 0x20000000
          [] ext = "fma" -> <<1, "ecx", 4096>>                  \* 0x00001000
          [] ext = "avx512f" -> <<7, "ebx", 65536>>             \* 0x00010000
          [] ext = "avx512ifma" -> <<7, "ebx", 2097152>>        \* 0x00200000
          [] ext = "avx512fp16" -> <<7, "edx", 8388608>>        \* 0x00800000
          [] ext = "avx512vpopcntdq" -> <<1, "ecx", 16384>>     \* 0x00004000
          [] ext = "avx512vbmi2" -> <<1, "ecx", 64>>            \* 0x00000040
          [] ext = "avx512vnni" -> <<1, "ecx", 2048>>           \* 0x00000800
          [] ext = "avx512bitalg" -> <<1, "ecx", 4096>> ]       \* 0x00001000

\* The extension is reported by the registers the probe has read.
Reported(ext) ==
    LET b == FeatureBit[ext]
        word == IF b[2] = "ecx" THEN info1_ecx
                ELSE IF b[2] = "ebx" THEN info7_ebx ELSE info7_edx
    IN BitAnd(word, b[3]) # 0

\* C18: on x86 the haswell bit is returned exactly when AVX2, F16C and FMA are
\* reported, the ice bit exactly when AVX512-VNNI, IFMA, BITALG, VBMI2 and
\* VPOPCNTDQ are, and no two extensions are decided by the same bit of the
\* same register.
C18_TiersFromDistinctBits ==
    pc = "probe" /\ "SIMSIMD_TARGET_X86" \in defined =>
        /\ Has(caps, simsimd_cap_haswell_k) <=>
              Reported("avx2") /\ Reported("f16c") /\ Reported("fma")
        /\ Has(caps, simsimd_cap_ice_k) <=>
              /\ Reported("avx512vnni") /\ Reported("avx512ifma")
              /\ Reported("avx512bitalg") /\ Reported("avx512vbmi2")
              /\ Reported("avx512vpopcntdq")
        /\ \A a, b \in DOMAIN FeatureBit :
              a # b => FeatureBit[a] # FeatureBit[b]

-----------------------------------------------------------------------------
(* C19 *)

\* C19: a call tests only tier blocks written under the case of the requested
\* datatype, each at most once, so at most as many as that case has.
C19_ExaminesOwnCascadeOnly ==
    pc = "find" =>
        /\ \A n \in 1..Len(examined) : examined[n] \in Cascade[datatype]
        /\ \A n, o \in 1..Len(examined) : n # o => examined[n] # examined[o]
        /\ Len(examined) <= Cardinality(Cascade[datatype])

-----------------------------------------------------------------------------
(* C20 *)

\* C20: after a call of simsimd_find_metric_punned the entry point is null
\* exactly when the capability is zero, and a non-null entry point is a kernel
\* of the tier the capability names: both outputs come from the same path, not
\* from what the caller (simsimd_metric_punned: null and serial) had in them.
C20_OutputsConsistent ==
    pc = "find" =>
        /\ metric_output = NULL <=> capability_output = 0
        /\ metric_output # NULL => metric_output.isa = IsaName(capability_output)

\* The unknown datatype leaves the switch at once: the serial bit that
\* simsimd_metric_punned had put in the capability is gone.
C20_Witness ==
    /\ pc = "find"
    /\ kind = simsimd_metric_dot_k /\ datatype = simsimd_datatype_unknown_k
    /\ supported = simsimd_cap_any_k /\ allowed = simsimd_cap_any_k
    /\ metric_output = NULL /\ capability_output = 0

-----------------------------------------------------------------------------
(* C21 *)

\* The two outputs of the call made with the masks sup and alw in place of the
\* ones passed, everything else the same.
WithMasks(sup, alw) ==
    LET r == FindMetricPunned(kind, datatype, sup, alw, defined,
                              NULL, simsimd_cap_serial_k)
    IN <<r.m, r.c>>

\* C21: the entry point and tier written depend on supported and allowed only
\* through supported & allowed: the call with the two masks swapped and the
\* call with both replaced by their intersection write the same outputs, and a
\* call with allowed = simsimd_cap_any_k writes what allowed = supported does.
C21_OnlyTheIntersection ==
    pc = "find" =>
        LET out == <<metric_output, capability_output>>
            both == BitAnd(supported, allowed)
        IN /\ WithMasks(allowed, supported) = out
           /\ WithMasks(both, both) = out
           /\ allowed = simsimd_cap_any_k => WithMasks(supported, supported) = out

\* Two masks that differ and share the serial bit alone, in a build with the
\* skylake kernels: the serial kernel answers although skylake is supported.
C21_Witness ==
    /\ pc = "find"
    /\ "SIMSIMD_TARGET_SKYLAKE" \in defined
    /\ kind = simsimd_metric_l2sq_k /\ datatype = simsimd_datatype_f32_k
    /\ supported = simsimd_cap_skylake_k + simsimd_cap_serial_k
    /\ allowed = simsimd_cap_haswell_k + simsimd_cap_serial_k
    /\ metric_output = Fn("l2sq", "f32", "serial")

====
